---- MODULE Spec2Model ----
(***************************************************************************)
(* Model of calculate_saturation_from_fragments.py: the sub-sampling       *)
(* statistics of sub_sample_fragments, the Michaelis-Menten fit of fit_MM  *)
(* and the order in which main runs them.                                  *)
(*                                                                         *)
(* Numbers that are floats in the program are exact rationals <<n, d>>     *)
(* here (d > 0, lowest terms).  A sampling fraction 0.1 + i*0.1 is held as *)
(* its number of tenths k = i + 1: for the ten fractions of the loop,      *)
(* int(fraction * 10) = k and int(fraction * N) = (k * N) \div 10 in       *)
(* IEEE double arithmetic as well.                                         *)
(***************************************************************************)
EXTENDS Integers, Sequences, FiniteSets

VARIABLES
    pc,                     \* position of main / of the caller of fit_MM
    fragments_df,           \* the fragment table read from the BED file
    min_uniq_frag,          \* args.min_frags_per_cb
    n_chunk,                \* args.subsamplings
    percentages,            \* args.percentages, in percent
    stats_bucket,           \* sub_sample_fragments: the dict of column dicts
    good_cell_barcodes,     \* sub_sample_fragments: the filtered group table
    nbr_good_cell_barcodes, \* sub_sample_fragments: its height
    fragments_all_df,       \* sub_sample_fragments: one row per read
    n_sampled,              \* iterations of the fraction loop done so far
    sampled,                \* the sample drawn in the last iteration
    outfile,                \* lines of the statistics file, <<>> before it exists
    stat_bucket,            \* the DataFrame returned to main and given to fit_MM
    best_fit_ab,            \* fit_MM: <<Vmax, Km>> once curve_fit returned
    x_fit_len,              \* fit_MM: length of x_fit and y_fit
    marker,                 \* fit_MM: the current-saturation marker
    resolved,               \* fit_MM: the percentages drawn, in order
    error                   \* the exception that ended the run, "" if none

vars == <<pc, fragments_df, min_uniq_frag, n_chunk, percentages, stats_bucket,
          good_cell_barcodes, nbr_good_cell_barcodes, fragments_all_df,
          n_sampled, sampled, outfile, stat_bucket, best_fit_ab, x_fit_len,
          marker, resolved, error>>

sub_vars == <<stats_bucket, good_cell_barcodes, nbr_good_cell_barcodes,
              fragments_all_df, n_sampled, sampled>>

fit_vars == <<best_fit_ab, x_fit_len, marker, resolved>>

input_vars == <<fragments_df, min_uniq_frag, n_chunk, percentages>>

----------------------------------------------------------------------------
(* Bounds of the model. *)

MaxReads == 3
MaxThreshold == 2
MaxX == 3

Barcodes == {"bc1", "bc2"}

----------------------------------------------------------------------------
(* Exact rationals. *)

RECURSIVE GCD(_, _)
GCD(a, b) == IF b = 0 THEN a ELSE GCD(b, a % b)

Abs(a) == IF a < 0 THEN -a ELSE a

Rat(n, d) ==
    LET g == GCD(Abs(n), Abs(d))
        s == IF d < 0 THEN -1 ELSE 1
    IN  <<(s * n) \div g, (s * d) \div g>>

RInt(n) == <<n, 1>>
RMul(a, b) == Rat(a[1] * b[1], a[2] * b[2])

\* a/b < c/d for a, c >= 0 and b, d > 0, by integer parts and remainders, so
\* that no product of two large numbers is formed.
RECURSIVE FracLt(_, _, _, _)
FracLt(a, b, c, d) ==
    IF a \div b # c \div d THEN a \div b < c \div d
    ELSE IF c % d = 0 THEN FALSE
    ELSE IF a % b = 0 THEN TRUE
    ELSE FracLt(d, c % d, b, a % b)

RLt(a, b) == FracLt(a[1], a[2], b[1], b[2])
RLeq(a, b) == ~ RLt(b, a)

NaN == "NaN"

Null == "null"

RECURSIVE SumSeq(_)
SumSeq(s) == IF s = <<>> THEN 0 ELSE Head(s) + SumSeq(Tail(s))

RECURSIVE SumOver(_, _)
SumOver(S, f) ==
    IF S = {} THEN 0
    ELSE LET e == CHOOSE e \in S : TRUE IN f[e] + SumOver(S \ {e}, f)

RECURSIVE SortedValues(_, _)
SortedValues(S, f) ==
    IF S = {} THEN <<>>
    ELSE LET e == CHOOSE e \in S : \A o \in S : f[e] <= f[o]
         IN  <<f[e]>> \o SortedValues(S \ {e}, f)

----------------------------------------------------------------------------
(* sub_sample_fragments *)

NumFractions == 10

\* One row of fragments_df.  Locus stands for (Chromosome, Start, End).
FragmentRow(bc, locus, cnt) ==
    [CellBarcode |-> bc, Locus |-> locus, FragmentCount |-> cnt]

\* stats_bucket as first assigned: four columns, each with the row "chunk 0".
\* ChunkLabel with 0.30000000000000004 * 10 and 0.7000000000000001 * 10
\* truncated one too low.
ChunkLabelTruncated(k) == <<"chunk", IF k = 3 \/ k = 7 THEN k - 1 ELSE k>>

\* "chunk " + str(int(fraction * 10)) for the fraction of k tenths.
ChunkLabel(k) == <<"chunk", k>>

InitStatsBucket ==
    [mean_frag_per_bc        |-> <<[key |-> ChunkLabel(0), val |-> RInt(0)]>>,
     median_uniq_frag_per_bc |-> <<[key |-> ChunkLabel(0), val |-> RInt(0)]>>,
     total_frag_count        |-> <<[key |-> ChunkLabel(0), val |-> 0]>>,
     cell_barcode_count      |-> <<[key |-> ChunkLabel(0), val |-> 0]>>]

\* d[key] = val on an insertion-ordered dict.
DictSet(d, key, val) ==
    IF \E j \in DOMAIN d : d[j].key = key
    THEN [j \in DOMAIN d |-> IF d[j].key = key THEN [key |-> key, val |-> val] ELSE d[j]]
    ELSE Append(d, [key |-> key, val |-> val])

DictKeys(d) == [j \in DOMAIN d |-> d[j].key]

DictGet(d, key) ==
    IF \E j \in DOMAIN d : d[j].key = key
    THEN d[CHOOSE j \in DOMAIN d : d[j].key = key].val
    ELSE NaN

\* groupby("CellBarcode").agg(count of FragmentCount): one row per barcode of
\* the table, in no particular order, with its number of records.
NbrFragsPerCB(df) ==
    {[CellBarcode |-> b,
      nbr_frags_per_CBs |-> Len(SelectSeq(df, LAMBDA row : row.CellBarcode = b))] :
        b \in {df[r].CellBarcode : r \in DOMAIN df}}

\* FilterGood with a barcode of exactly threshold records admitted.
FilterGoodAtLeast(groups, threshold) ==
    {g \in groups : g.nbr_frags_per_CBs >= threshold}

FilterGood(groups, threshold) ==
    {g \in groups : g.nbr_frags_per_CBs > threshold}

GoodCellBarcodes(df, threshold) == FilterGood(NbrFragsPerCB(df), threshold)

\* repeat_by(FragmentCount).explode: record r becomes FragmentCount identical
\* rows.  The table is held as the number of rows of each record.
\* RepeatBy without the repetition: one row per record.
RepeatByOnce(row) == 1

RepeatBy(row) == row.FragmentCount

Explode(df) == [r \in DOMAIN df |-> RepeatBy(df[r])]

Height(all) == SumSeq(all)

\* sample(frac = k/10): int(frac * height) rows, without replacement.
SampleSize(height, k) == (k * height) \div 10

\* The samples of n rows: rows of one record are identical, so a sample is the
\* number of rows it holds of each record.
Samples(all, n) ==
    {d \in [DOMAIN all -> 0 .. MaxReads] :
        /\ \A r \in DOMAIN all : d[r] <= all[r]
        /\ SumSeq(d) = n}

\* good_cell_barcodes.join(sample, on CellBarcode, how = "left"): every sampled
\* row of a good barcode, and one row of nulls for a good barcode without any.
\* rows is the number of identical rows, matched is FALSE on a row of nulls.
JoinLeft(good, df, d) ==
    {[CellBarcode |-> g.CellBarcode, Locus |-> df[r].Locus,
      FragmentCount |-> df[r].FragmentCount, matched |-> TRUE, rows |-> d[r]] :
        <<g, r>> \in {x \in good \X DOMAIN df :
                        df[x[2]].CellBarcode = x[1].CellBarcode /\ d[x[2]] > 0}}
    \cup
    {[CellBarcode |-> g.CellBarcode, Locus |-> Null, FragmentCount |-> Null,
      matched |-> FALSE, rows |-> 1] :
        g \in {x \in good : ~ \E r \in DOMAIN df :
                        df[r].CellBarcode = x.CellBarcode /\ d[r] > 0}}

JoinedHeight(joined) == SumOver(joined, [e \in joined |-> e.rows])

JoinedBarcodes(joined) == {e.CellBarcode : e \in joined}

\* FragmentsPerCB with the rows of one fragment record counted once.
FragmentsPerCBDistinct(joined) ==
    [b \in JoinedBarcodes(joined) |-> Cardinality({e \in joined : e.CellBarcode = b})]

\* groupby("CellBarcode").agg(count("FragmentCount")): rows per barcode, the
\* row of nulls counted.
FragmentsPerCB(joined) ==
    [b \in JoinedBarcodes(joined) |->
        LET mine == {e \in joined : e.CellBarcode = b}
        IN  SumOver(mine, [e \in mine |-> e.rows])]

\* mean of a column; null (NaN in the DataFrame) for an empty one.
Mean(S, f) ==
    IF S = {} THEN NaN ELSE Rat(SumOver(S, f), Cardinality(S))

MeanFragPerBC(joined) ==
    Mean(JoinedBarcodes(joined), FragmentsPerCB(joined))

\* groupby(["CellBarcode", "Chromosome", "Start", "End"]).agg(first), then
\* groupby("CellBarcode").agg(count): distinct fragments per barcode.
UniqueFragmentsPerCB(joined) ==
    [b \in JoinedBarcodes(joined) |->
        Cardinality({<<e.CellBarcode, e.Locus>> : e \in {x \in joined : x.CellBarcode = b}})]

Median(S, f) ==
    IF S = {} THEN NaN
    ELSE LET v == SortedValues(S, f)
             n == Len(v)
         IN  IF n % 2 = 1 THEN RInt(v[(n + 1) \div 2])
             ELSE Rat(v[n \div 2] + v[n \div 2 + 1], 2)

MedianUniqFragPerBC(joined) ==
    Median(JoinedBarcodes(joined), UniqueFragmentsPerCB(joined))

\* CellBarcodeCount recomputed from the barcodes of the sample.
CellBarcodeCountSampled(nbr, joined) ==
    Cardinality({e.CellBarcode : e \in {x \in joined : x.matched}})

\* Line 193: the count of good barcodes, the same for every fraction.
CellBarcodeCount(nbr, joined) == nbr

\* pd.DataFrame(stats_bucket): the index is the keys of the column dicts in
\* insertion order, a value missing from a column is NaN.
RECURSIVE UnionKeys(_, _)
UnionKeys(acc, keys) ==
    IF keys = <<>> THEN acc
    ELSE UnionKeys(IF \E j \in DOMAIN acc : acc[j] = Head(keys)
                   THEN acc ELSE Append(acc, Head(keys)),
                   Tail(keys))

ToDataFrame(sb) ==
    LET index == UnionKeys(UnionKeys(UnionKeys(DictKeys(sb.mean_frag_per_bc),
                               DictKeys(sb.median_uniq_frag_per_bc)),
                               DictKeys(sb.total_frag_count)),
                               DictKeys(sb.cell_barcode_count))
    IN  [j \in DOMAIN index |->
            [chunk                   |-> index[j],
             mean_frag_per_bc        |-> DictGet(sb.mean_frag_per_bc, index[j]),
             median_uniq_frag_per_bc |-> DictGet(sb.median_uniq_frag_per_bc, index[j]),
             total_frag_count        |-> DictGet(sb.total_frag_count, index[j]),
             cell_barcode_count      |-> DictGet(sb.cell_barcode_count, index[j])]]

\* ToCsv without the index column (index=False).
ToCsvNoIndex(df) ==
    <<  <<"mean_frag_per_bc", "median_uniq_frag_per_bc", "total_frag_count",
          "cell_barcode_count">>  >>
    \o [j \in DOMAIN df |->
            <<df[j].mean_frag_per_bc, df[j].median_uniq_frag_per_bc,
              df[j].total_frag_count, df[j].cell_barcode_count>>]

\* to_csv(outfile, sep = "\t"): a header line, then one line per row.
ToCsv(df) ==
    <<  <<"", "mean_frag_per_bc", "median_uniq_frag_per_bc", "total_frag_count",
          "cell_barcode_count">>  >>
    \o [j \in DOMAIN df |->
            <<df[j].chunk, df[j].mean_frag_per_bc, df[j].median_uniq_frag_per_bc,
              df[j].total_frag_count, df[j].cell_barcode_count>>]

\* Lines 122-150: the statistics dict, the good barcodes, the expanded table.
SubSampleBegin ==
    /\ pc = "sub_sample_fragments"
    /\ stats_bucket' = InitStatsBucket
    /\ good_cell_barcodes' = GoodCellBarcodes(fragments_df, min_uniq_frag)
    /\ nbr_good_cell_barcodes' = Cardinality(good_cell_barcodes')
    /\ fragments_all_df' = Explode(fragments_df)
    /\ n_sampled' = 0
    /\ pc' = "fractions"
    /\ UNCHANGED <<input_vars, sampled, outfile, stat_bucket, fit_vars, error>>

\* Lines 152-193: one iteration of the loop over np.arange(0.1, 1.1, 0.1).
SubSampleFraction ==
    /\ pc = "fractions"
    /\ n_sampled < NumFractions
    /\ LET k == n_sampled + 1
           chunk == ChunkLabel(k)
       IN  \E d \in Samples(fragments_all_df, SampleSize(Height(fragments_all_df), k)) :
             LET joined == JoinLeft(good_cell_barcodes, fragments_df, d)
             IN  /\ sampled' = d
                 /\ stats_bucket' =
                      [total_frag_count |->
                           DictSet(stats_bucket.total_frag_count, chunk, JoinedHeight(joined)),
                       mean_frag_per_bc |->
                           DictSet(stats_bucket.mean_frag_per_bc, chunk, MeanFragPerBC(joined)),
                       median_uniq_frag_per_bc |->
                           DictSet(stats_bucket.median_uniq_frag_per_bc, chunk,
                                   MedianUniqFragPerBC(joined)),
                       cell_barcode_count |->
                           DictSet(stats_bucket.cell_barcode_count, chunk,
                                   CellBarcodeCount(nbr_good_cell_barcodes, joined))]
                 /\ n_sampled' = k
    /\ UNCHANGED <<pc, input_vars, good_cell_barcodes, nbr_good_cell_barcodes,
                   fragments_all_df, outfile, stat_bucket, fit_vars, error>>

\* Lines 195-200: the DataFrame, written to outfile and returned to main.
SubSampleSave ==
    /\ pc = "fractions"
    /\ n_sampled = NumFractions
    /\ stat_bucket' = ToDataFrame(stats_bucket)
    /\ outfile' = ToCsv(stat_bucket')
    /\ pc' = "fit_MM"
    /\ UNCHANGED <<input_vars, sub_vars, fit_vars, error>>

----------------------------------------------------------------------------
(* fit_MM *)

NumFitPoints == 500

\* The Michaelis-Menten model.  The quotient is left unreduced.
MM(x, Vmax, Km) ==
    IF RLt(RInt(0), Vmax) /\ RLt(RInt(0), Km)
    THEN <<Vmax[1] * x[1] * Km[2], Vmax[2] * (Km[1] * x[2] + x[1] * Km[2])>>
    ELSE <<10 ^ 10, 1>>

\* np.array(stat_bucket.loc[:, axis])
Column(df, axis) == [j \in DOMAIN df |-> df[j][axis]]

IsFinite(data) == \A j \in DOMAIN data : data[j] # NaN

RECURSIVE MaxOf(_)
MaxOf(data) ==
    IF Len(data) = 1 THEN data[1]
    ELSE LET m == MaxOf(Tail(data))
         IN  IF RLt(data[1], m) THEN m ELSE data[1]

XData(df) == [j \in DOMAIN df |-> RInt(df[j].total_frag_count)]
YData(df) == Column(df, "median_uniq_frag_per_bc")

\* np.linspace(0, int(np.max(x_data) * 100), num=500)[i], i from 0.
GridStop(x_data) == MaxOf(x_data)[1] * 100

XFit(i, stop) == <<i * stop, NumFitPoints - 1>>

YFit(i, stop, ab) == MM(XFit(i, stop), ab[1], ab[2])

\* max(y_fit) over the indices lo .. hi of y_fit.
RECURSIVE MaxYFit(_, _, _, _)
MaxYFit(lo, hi, stop, ab) ==
    IF lo = hi THEN YFit(lo, stop, ab)
    ELSE LET mid == (lo + hi) \div 2
             l == MaxYFit(lo, mid, stop, ab)
             r == MaxYFit(mid + 1, hi, stop, ab)
         IN  IF RLt(l, r) THEN r ELSE l

\* np.where(y_fit >= y_val)[0] restricted to lo .. hi: its first index,
\* -1 when it is empty.
RECURSIVE WhereFirst(_, _, _, _, _)
WhereFirst(lo, hi, y_val, stop, ab) ==
    IF lo > hi THEN -1
    ELSE IF lo = hi THEN (IF RLeq(y_val, YFit(lo, stop, ab)) THEN lo ELSE -1)
    ELSE LET mid == (lo + hi) \div 2
             l == WhereFirst(lo, mid, y_val, stop, ab)
         IN  IF l # -1 THEN l ELSE WhereFirst(mid + 1, hi, y_val, stop, ab)

Percent(perc) == Rat(perc, 100)

\* The positive parameter pairs the solver is taken to return.
FitVmax == {RInt(1), RInt(2)}
FitKm == {<<1, 2>>, RInt(2), RInt(400)}
FitCandidates == FitVmax \X FitKm

\* What a least-squares minimiser with Vmax > 0 satisfies: the derivative of
\* the squared residuals in Vmax, the sum over the points with x > 0 of
\* residual * x / (Km + x), is zero, so the residuals at those points are
\* neither all positive nor all negative.
Stationary(ab, x_data, y_data) ==
    LET pos == {j \in DOMAIN x_data : RLt(RInt(0), x_data[j])}
    IN  \/ pos = {}
        \/ /\ \E j \in pos : RLeq(y_data[j], MM(x_data[j], ab[1], ab[2]))
           /\ \E j \in pos : RLeq(MM(x_data[j], ab[1], ab[2]), y_data[j])

\* curve_fit(MM, x_data, y_data, bounds=(0, +inf)): the parameters of a
\* least-squares minimiser, both positive; any candidate that can be one.
CurveFit(x_data, y_data) ==
    {ab \in FitCandidates : Stationary(ab, x_data, y_data)}

\* Lines 219-225: the length of x_fit and y_fit after the cut below 95% of Vmax.
TruncatedLen(stop, ab) ==
    LET y_val == RMul(ab[1], Rat(95, 100))
    IN  IF RLt(y_val, MaxYFit(0, NumFitPoints - 1, stop, ab))
        THEN WhereFirst(0, NumFitPoints - 1, y_val, stop, ab)
        ELSE NumFitPoints

\* Line 215 raising: the solver does not converge, or the data are not finite.
FitCurveFails ==
    /\ pc = "fit_MM"
    /\ error' = "curve_fit"
    /\ pc' = "failed"
    /\ UNCHANGED <<input_vars, sub_vars, outfile, stat_bucket, fit_vars>>

\* Lines 212-225: the fit, the extrapolation grid and its cut.
FitCurve ==
    /\ pc = "fit_MM"
    /\ IsFinite(YData(stat_bucket))
    /\ \E ab \in CurveFit(XData(stat_bucket), YData(stat_bucket)) :
         /\ best_fit_ab' = ab
         /\ x_fit_len' = TruncatedLen(GridStop(XData(stat_bucket)), ab)
    /\ pc' = "marker"
    /\ UNCHANGED <<input_vars, sub_vars, outfile, stat_bucket, marker, resolved, error>>

\* Line 231: np.where(y_fit >= max(y_data))[0][0] on the cut grid.
MarkerIndex ==
    WhereFirst(0, x_fit_len - 1, MaxOf(YData(stat_bucket)),
               GridStop(XData(stat_bucket)), best_fit_ab)

\* Lines 226-244: the current-saturation marker.
FitMarker ==
    /\ pc = "marker"
    /\ LET x_idx == MarkerIndex
           stop == GridStop(XData(stat_bucket))
       IN  /\ x_idx # -1
           /\ marker' = [x_idx |-> x_idx, x_coef |-> XFit(x_idx, stop),
                         y_coef |-> YFit(x_idx, stop, best_fit_ab)]
    /\ pc' = "percentages"
    /\ UNCHANGED <<input_vars, sub_vars, outfile, stat_bucket, best_fit_ab, x_fit_len,
                   resolved, error>>

\* Line 231 raising IndexError: no point of the cut grid reaches max(y_data).
FitMarkerIndexError ==
    /\ pc = "marker"
    /\ MarkerIndex = -1
    /\ error' = "IndexError"
    /\ pc' = "failed"
    /\ UNCHANGED <<input_vars, sub_vars, outfile, stat_bucket, fit_vars>>

\* Lines 248-253 for one percentage: <<>> when it is skipped.
ResolvePercentage(perc, len, stop, ab) ==
    LET y_val == RMul(ab[1], Percent(perc))
    IN  IF RLt(y_val, MaxYFit(0, len - 1, stop, ab))
        THEN LET x_idx == WhereFirst(0, len - 1, y_val, stop, ab)
             IN  <<[perc |-> perc, x_idx |-> x_idx,
                    x_coef |-> XFit(x_idx, stop), y_coef |-> YFit(x_idx, stop, ab)]>>
        ELSE <<>>

RECURSIVE ResolveAll(_, _, _, _)
ResolveAll(percs, len, stop, ab) ==
    IF percs = <<>> THEN <<>>
    ELSE ResolvePercentage(Head(percs), len, stop, ab)
         \o ResolveAll(Tail(percs), len, stop, ab)

\* Lines 245-271: the loop over the percentages, then the figure.
FitPercentages ==
    /\ pc = "percentages"
    /\ resolved' = ResolveAll(percentages, x_fit_len,
                              GridStop(XData(stat_bucket)), best_fit_ab)
    /\ pc' = "finished"
    /\ UNCHANGED <<input_vars, sub_vars, outfile, stat_bucket, best_fit_ab, x_fit_len,
                   marker, error>>

----------------------------------------------------------------------------
(* main, and fit_MM called on a statistics table of its own *)

Unset == "unset"

\* The fragment tables: records of at most MaxReads reads in all, each a
\* distinct fragment, listed barcode by barcode and by duplicate count.
BarcodeRank(bc) == IF bc = "bc1" THEN 1 ELSE 2

Listed(p) ==
    \A r \in 1 .. Len(p) - 1 :
        \/ BarcodeRank(p[r][1]) < BarcodeRank(p[r + 1][1])
        \/ p[r][1] = p[r + 1][1] /\ p[r][2] <= p[r + 1][2]

Populations ==
    {p \in UNION {[1 .. n -> Barcodes \X (1 .. MaxReads)] : n \in 1 .. MaxReads} :
        /\ SumSeq([r \in DOMAIN p |-> p[r][2]]) <= MaxReads
        /\ Listed(p)}

FragmentsOf(p) == [r \in DOMAIN p |-> FragmentRow(p[r][1], r, p[r][2])]

SubsamplingChoices == {5, 10}

PercentageChoices == {<<30, 60, 90>>}

\* main at line 345: the arguments parsed, the fragments file read.
Init ==
    /\ pc = "sub_sample_fragments"
    /\ fragments_df \in {FragmentsOf(p) : p \in Populations}
    /\ min_uniq_frag \in 0 .. MaxThreshold
    /\ n_chunk \in SubsamplingChoices
    /\ percentages \in PercentageChoices
    /\ stats_bucket = Unset
    /\ good_cell_barcodes = Unset
    /\ nbr_good_cell_barcodes = Unset
    /\ fragments_all_df = Unset
    /\ n_sampled = 0
    /\ sampled = Unset
    /\ outfile = <<>>
    /\ stat_bucket = Unset
    /\ best_fit_ab = Unset
    /\ x_fit_len = 0
    /\ marker = Unset
    /\ resolved = <<>>
    /\ error = ""

Next ==
    \/ SubSampleBegin
    \/ SubSampleFraction
    \/ SubSampleSave
    \/ FitCurveFails
    \/ FitCurve
    \/ FitMarker
    \/ FitMarkerIndexError
    \/ FitPercentages

Spec == Init /\ [][Next]_vars

\* Statistics tables for fit_MM alone: chunk 0, then 1 .. MaxX rows at depths
\* XUnit, 2 * XUnit, ..., whose yields lie on a candidate curve.
XUnit == 10

TableRow(k, x, y) ==
    [chunk |-> ChunkLabel(k), mean_frag_per_bc |-> RInt(0),
     median_uniq_frag_per_bc |-> y, total_frag_count |-> x, cell_barcode_count |-> 1]

CurveTable(n, ab) ==
    [j \in 1 .. n + 1 |->
        TableRow(j - 1, (j - 1) * XUnit,
                 LET y == MM(RInt((j - 1) * XUnit), ab[1], ab[2]) IN Rat(y[1], y[2]))]

FitTables ==
    {CurveTable(n, ab) : n \in 1 .. MaxX, ab \in FitCandidates}

FitPercentageChoices == PercentageChoices \cup {<<50, 97>>, <<95>>, <<10, 99>>}

InitFit ==
    /\ pc = "fit_MM"
    /\ stat_bucket \in FitTables
    /\ percentages \in FitPercentageChoices
    /\ fragments_df = Unset
    /\ min_uniq_frag = Unset
    /\ n_chunk = Unset
    /\ stats_bucket = Unset
    /\ good_cell_barcodes = Unset
    /\ nbr_good_cell_barcodes = Unset
    /\ fragments_all_df = Unset
    /\ n_sampled = 0
    /\ sampled = Unset
    /\ outfile = <<>>
    /\ best_fit_ab = Unset
    /\ x_fit_len = 0
    /\ marker = Unset
    /\ resolved = <<>>
    /\ error = ""

NextFit ==
    \/ FitCurveFails
    \/ FitCurve
    \/ FitMarker
    \/ FitMarkerIndexError
    \/ FitPercentages

SpecFit == InitFit /\ [][NextFit]_vars

----------------------------------------------------------------------------
(* The claims *)

\* sub_sample_fragments has returned its table to main.
Returned == pc \in {"fit_MM", "marker", "percentages", "finished", "failed"}

\* A fraction of the loop has just been processed.
Sampled == pc = "fractions" /\ n_sampled >= 1

RecordsOf(b) == {r \in DOMAIN fragments_df : fragments_df[r].CellBarcode = b}

\* The barcodes with more than min_uniq_frag fragment records.
GoodBarcodeSet == {b \in Barcodes : Cardinality(RecordsOf(b)) > min_uniq_frag}

DuplicateSum(b) ==
    SumOver(RecordsOf(b), [r \in RecordsOf(b) |-> fragments_df[r].FragmentCount])

\* Reads of barcode b in the last sample.
DrawnReads(b) == SumOver(RecordsOf(b), [r \in RecordsOf(b) |-> sampled[r]])

\* Fragment records of barcode b with a read in the last sample.
DrawnRecords(b) == Cardinality({r \in RecordsOf(b) : sampled[r] > 0})

LastChunk == <<"chunk", n_sampled>>

\* C1 as stated: the returned table has exactly one row per sampling fraction
\* and no other row, in increasing fraction order.
C1_OneRowPerFraction ==
    Returned =>
        /\ Len(stat_bucket) = NumFractions
        /\ \A j \in 1 .. Len(stat_bucket) : stat_bucket[j].chunk = <<"chunk", j>>

\* C1, amended: the returned table has one row per sampling fraction, in
\* increasing fraction order, after one more row, "chunk 0", that is all zero:
\* eleven rows for the ten fractions.
C1_FractionRowsAfterChunkZero ==
    Returned =>
        /\ Len(stat_bucket) = NumFractions + 1
        /\ \A j \in 1 .. Len(stat_bucket) : stat_bucket[j].chunk = <<"chunk", j - 1>>
        /\ stat_bucket[1].total_frag_count = 0
        /\ stat_bucket[1].cell_barcode_count = 0
        /\ stat_bucket[1].mean_frag_per_bc = <<0, 1>>
        /\ stat_bucket[1].median_uniq_frag_per_bc = <<0, 1>>

\* C1: a table returned to main whose last row, of fraction 1.0, holds reads.
C1_Witness ==
    /\ pc = "fit_MM"
    /\ Len(stat_bucket) = 11
    /\ stat_bucket[11].chunk = <<"chunk", 10>>
    /\ stat_bucket[11].total_frag_count > 0

\* C2 as stated: in every row of the returned table cell_barcode_count is the
\* size of GoodBarcodeSet.
C2_EveryRowGoodCount ==
    Returned =>
        \A j \in 1 .. Len(stat_bucket) :
            stat_bucket[j].cell_barcode_count = Cardinality(GoodBarcodeSet)

\* C2, amended: in every row of a sampling fraction cell_barcode_count is the
\* size of GoodBarcodeSet; in the row "chunk 0" it is 0.
C2_FractionRowsGoodCount ==
    Returned =>
        \A j \in 1 .. Len(stat_bucket) :
            stat_bucket[j].cell_barcode_count =
                IF stat_bucket[j].chunk = <<"chunk", 0>> THEN 0
                ELSE Cardinality(GoodBarcodeSet)

\* C2: a table returned for two good barcodes of different record counts.
C2_Witness ==
    /\ pc = "fit_MM"
    /\ Cardinality(GoodBarcodeSet) = 2
    /\ Cardinality(RecordsOf("bc1")) # Cardinality(RecordsOf("bc2"))
    /\ stat_bucket[2].cell_barcode_count = 2

C4_SubsamplingsConfigured ==
    Returned => n_sampled = n_chunk /\ Len(stat_bucket) = n_chunk + 1

C8_TotalIsDrawnGoodReads ==
    Sampled =>
        DictGet(stats_bucket.total_frag_count, LastChunk) =
            SumOver(GoodBarcodeSet, [b \in GoodBarcodeSet |-> DrawnReads(b)])

FirstOnGrid(perc) ==
    WhereFirst(0, NumFitPoints - 1, RMul(best_fit_ab[1], Rat(perc, 100)),
               GridStop(XData(stat_bucket)), best_fit_ab)

Requested == {percentages[j] : j \in DOMAIN percentages}

\* C5 as stated: every requested percentage is resolved to the smallest point
\* of the 500-point grid where the fitted curve reaches Vmax * p, and is
\* skipped only when no point of that grid reaches it.
C5_ResolvedOnWholeGrid ==
    pc = "finished" =>
        \A perc \in Requested :
            IF FirstOnGrid(perc) = -1
            THEN \A j \in DOMAIN resolved : resolved[j].perc # perc
            ELSE \E j \in DOMAIN resolved :
                    /\ resolved[j].perc = perc
                    /\ resolved[j].x_idx = FirstOnGrid(perc)

\* The statistics file holds the table given to fit_MM, row for row.
StatsOnFile ==
    /\ Len(stat_bucket) = NumFractions + 1
    /\ Len(outfile) = Len(stat_bucket) + 1
    /\ \A j \in 1 .. Len(stat_bucket) :
          outfile[j + 1] = <<stat_bucket[j].chunk,
                             stat_bucket[j].mean_frag_per_bc,
                             stat_bucket[j].median_uniq_frag_per_bc,
                             stat_bucket[j].total_frag_count,
                             stat_bucket[j].cell_barcode_count>>

\* C6: when the fit step starts the statistics table is complete and on file,
\* and no step of fit_MM, its failure included, changes the table or the file.
C6_StatsSavedAndKept ==
    /\ [](Returned => n_sampled = NumFractions /\ StatsOnFile)
    /\ [][Returned => (stat_bucket' = stat_bucket /\ outfile' = outfile)]_vars

\* C6: fit_MM has failed and the statistics file holds the whole table.
C6_Witness ==
    /\ pc = "failed"
    /\ error = "IndexError"
    /\ StatsOnFile
    /\ stat_bucket[NumFractions + 1].total_frag_count = 3

\* C10 as stated: once the fit has succeeded the cut grid holds a point whose
\* fitted y is at least max(y_data), and the marker is resolved without an
\* IndexError.
C10_MarkerAlwaysResolved ==
    /\ pc = "marker" => MarkerIndex # -1
    /\ error # "IndexError"

====
